---- MODULE Spec2Model ----
(***************************************************************************)
(* Session / authentication subsystem of school_registry_api:              *)
(* AuthService (token codec, Redis session store), AuthController          *)
(* (login, refresh, logout, csrf-token) and AuthMiddleware (the gate).     *)
(* Every HTTP request is a process; one step of a process is the code      *)
(* that runs between two awaits of its handler.                            *)
(***************************************************************************)
EXTENDS Integers, Sequences, FiniteSets, TLC

\* ---------------------------------------------------------------- bounds
\* number of HTTP requests of one run
NReq == 3
\* the clock takes the first MaxTick instants of Instants
MaxTick == 2
\* where lifetimes run out, the clock takes the first MaxElapse instants
MaxElapse == 5

\* ------------------------------------------------- configuration (seconds)
JWT_EXPIRES_IN == 900
JWT_REFRESH_EXPIRES_IN == 604800
REFRESH_TOKEN_REDIS_TTL == 604800
CSRF_TOKEN_TTL == 86400
\* the secrets of a deployment that sets both (the constructor falls back to
\* '' for an unset one)
ConfiguredEnv == [JWT_SECRET |-> "access-secret", JWT_REFRESH_SECRET |-> "refresh-secret"]
\* the values the two variables can have: unset, or one of two strings
SecretValues == {"", "access-secret", "refresh-secret"}

\* clock readings (seconds) the model visits, in order
Instants == <<0, 1, 900, 86400, 604800, 604801>>

\* rows of the users table when the service starts (serial ids); a user's
\* email address is written as the id its row has or will get
Users == {1, 2}
\* the row a successful register inserts
NewUsers == {3}

Reqs == 1..NReq

\* ------------------------------------------------------------- JS values
\* A JavaScript value keeps its type: 1 and "1" are different values.
Null == [t |-> "null", v |-> 0]
Num(n) == [t |-> "number", v |-> n]
Str(n) == [t |-> "string", v |-> n]
\* String(x) / template literal `${x}`: the text of a number is its digits
ToStr(x) == IF x.t = "null" THEN Null ELSE Str(x.v)
\* a !== b (strict inequality: different types are never equal)
StrictNeq(a, b) == a # b
\* !x for the values used here (null, a non-empty string, a positive number)
Falsy(x) == x.t = "null"

VARIABLES
  tick,     \* index into Instants: the wall clock
  users,    \* ids of the rows of the users table
  redis,    \* the session store: a set of entries [key, val, exp]
  reqs,     \* the HTTP requests, reqs[r] for r \in Reqs
  env       \* process.env as the constructor of AuthService read it

vars == <<tick, users, redis, reqs, env>>

\* process.env['JWT_SECRET'] || '', process.env['JWT_REFRESH_SECRET'] || ''
JWT_SECRET == env.JWT_SECRET
JWT_REFRESH_SECRET == env.JWT_REFRESH_SECRET

Now == Instants[tick]

\* ------------------------------------------------------ signed token codec
NoToken == [secret |-> "", userId |-> Null, iat |-> 0, exp |-> 0]

\* jwt.sign({ userId }, secret, { expiresIn }): the string is determined by
\* the payload { userId, iat, exp } and the secret
Sign(userId, secret, expiresIn) ==
  [secret |-> secret, userId |-> userId, iat |-> Now, exp |-> Now + expiresIn]

\* variant: verification with ignoreExpiration
JwtVerify_IgnoresExpiry(token, secret) ==
  IF token.secret = secret
    THEN [ok |-> TRUE, userId |-> token.userId]
    ELSE [ok |-> FALSE, userId |-> Null]

\* jwt.verify(token, secret): the payload, or a throw (bad signature, expired,
\* no secret)
JwtVerify(token, secret) ==
  IF secret # "" /\ token.secret = secret /\ Now < token.exp
    THEN [ok |-> TRUE, userId |-> token.userId]
    ELSE [ok |-> FALSE, userId |-> Null]

\* jwt.sign throws 'secretOrPrivateKey must have a value' for the secret ''
SignThrows == JWT_SECRET = "" \/ JWT_REFRESH_SECRET = ""

generateTokens(userId) ==
  [accessToken |-> Sign(userId, JWT_SECRET, JWT_EXPIRES_IN),
   refreshToken |-> Sign(userId, JWT_REFRESH_SECRET, JWT_REFRESH_EXPIRES_IN)]

NoTokens == [accessToken |-> NoToken, refreshToken |-> NoToken]

\* the catch turns every throw of jwt.verify into null
verifyAccessToken(token) ==
  LET d == JwtVerify(token, JWT_SECRET) IN IF d.ok THEN d.userId ELSE Null

verifyRefreshToken(token) ==
  LET d == JwtVerify(token, JWT_REFRESH_SECRET) IN IF d.ok THEN d.userId ELSE Null

\* crypto.randomBytes(32): a value never produced before; request r draws r
generateCSRFToken(r) == Str(r)

\* ---------------------------------------------------------- session store
RefreshKey(token) == [ns |-> "refresh_token", tok |-> token, id |-> 0]
CsrfKey(userId) == [ns |-> "csrf_token", tok |-> NoToken, id |-> ToStr(userId).v]

\* variant: SET key value, an entry that never expires
RedisSetex_NoExpiry(store, key, ttl, val) ==
  {e \in store : e.key # key}
    \cup {[key |-> key, val |-> ToStr(val), exp |-> Instants[Len(Instants)] + 1]}

\* SETEX key ttl value: replaces the entry of the key; the value is kept as text
RedisSetex(store, key, ttl, val) ==
  {e \in store : e.key # key} \cup {[key |-> key, val |-> ToStr(val), exp |-> Now + ttl]}

\* GET key: the text, or null when the key is absent or its TTL has elapsed
RedisGet(store, key) ==
  IF \E e \in store : e.key = key /\ e.exp > Now
    THEN (CHOOSE e \in store : e.key = key /\ e.exp > Now).val
    ELSE Null

RedisDel(store, key) == {e \in store : e.key # key}

\* variant: SET ... NX, an existing entry of the user is kept
storeCSRFToken_IfAbsent(store, token, userId) ==
  IF Falsy(RedisGet(store, CsrfKey(userId)))
    THEN RedisSetex(store, CsrfKey(userId), CSRF_TOKEN_TTL, token)
    ELSE store

storeCSRFToken(store, token, userId) ==
  RedisSetex(store, CsrfKey(userId), CSRF_TOKEN_TTL, token)

getCSRFToken(store, userId) == RedisGet(store, CsrfKey(userId))

deleteCSRFToken(store, userId) == RedisDel(store, CsrfKey(userId))

\* variant: the entry is bound to the first user, whoever the token is for
storeRefreshToken_FirstUser(store, refreshToken, userId) ==
  RedisSetex(store, RefreshKey(refreshToken), REFRESH_TOKEN_REDIS_TTL, Num(1))

storeRefreshToken(store, refreshToken, userId) ==
  RedisSetex(store, RefreshKey(refreshToken), REFRESH_TOKEN_REDIS_TTL, userId)

getRefreshTokenUserId(store, refreshToken) == RedisGet(store, RefreshKey(refreshToken))

deleteRefreshToken(store, refreshToken) == RedisDel(store, RefreshKey(refreshToken))

\* ----------------------------------------------------------------- requests
\* accessMaxAge, refreshMaxAge: the maxAge option of res.cookie, which Express
\* reads in milliseconds
NoCookies ==
  [change |-> "none", accessToken |-> NoToken, refreshToken |-> NoToken,
   accessMaxAge |-> 0, refreshMaxAge |-> 0]

\* setSecureCookies(res, accessToken, refreshToken)
setSecureCookies(accessToken, refreshToken) ==
  [change |-> "set", accessToken |-> accessToken, refreshToken |-> refreshToken,
   accessMaxAge |-> JWT_EXPIRES_IN, refreshMaxAge |-> JWT_REFRESH_EXPIRES_IN]

\* clearAuthCookies(res)
clearAuthCookies ==
  [change |-> "cleared", accessToken |-> NoToken, refreshToken |-> NoToken,
   accessMaxAge |-> 0, refreshMaxAge |-> 0]

NoBody == [email |-> 0, password |-> ""]

\* no Authorization header
NoAuth == [scheme |-> "", tok |-> NoToken]

IdleReq ==
  [op |-> "none", pc |-> "idle",
   after |-> {},              \* the requests that had ended when this one arrived
   body |-> NoBody,           \* req.body of login
   tok |-> NoToken,           \* req.cookies.refreshToken
   user |-> Null,             \* user.id of the loaded row / req.user.id
   stored |-> Null,           \* storedUserId
   decoded |-> Null,          \* decoded.userId (null: verification failed)
   tokens |-> NoTokens,       \* generateTokens(...)
   csrf |-> Null,             \* generateCSRFToken()
   pend |-> {},               \* store writes of Promise.all not yet settled
   landed |-> {},             \* store writes of this request that succeeded
   failed |-> {},             \* store and database calls of this request that threw
   status |-> 0,              \* res.status(...), 0: no response yet
   msg |-> "",                \* error / message of the JSON body
   csrfOut |-> Null,          \* csrfToken of the JSON body
   cookies |-> NoCookies,     \* cookies set or cleared by the response
   method |-> "",             \* req.method of a request to a protected route
   early |-> FALSE,           \* its route is registered before csrfProtection
   accessCookie |-> NoToken,  \* req.cookies.accessToken
   authorization |-> NoAuth,  \* req.headers.authorization
   csrfHeader |-> Null,       \* req.headers['x-csrf-token']
   reached |-> FALSE,         \* the route handler was called
   keys |-> {},               \* logoutAll: keys of redis.keys(...) not yet visited
   key |-> NoToken]           \* logoutAll: the key of the current loop iteration

Responded(q) == q.status # 0
Ended(q) == q.pc = "done"
InFlight(q) == q.pc \notin {"idle", "done"}

\* requests are numbered in the order they arrive; the request to a protected
\* route is the last one of a run (it changes nothing a later request reads)
CanStart(r) ==
  /\ reqs[r].pc = "idle"
  /\ \A j \in Reqs : j < r => reqs[j].pc # "idle" /\ reqs[j].op # "gate"

\* a request as it arrives: op and the requests that ended before it
Arrive(r, op) ==
  [IdleReq EXCEPT !.op = op, !.after = {j \in Reqs : Ended(reqs[j])}]

\* request r ran with no other request in flight between its arrival and its end
Alone(r) ==
  /\ Ended(reqs[r])
  /\ \A j \in Reqs : j < r => j \in reqs[r].after
  /\ \A j \in Reqs : j > r => reqs[j].pc = "idle" \/ r \in reqs[j].after

Reply(q, status, msg) == [q EXCEPT !.pc = "done", !.status = status, !.msg = msg]

Init ==
  /\ tick = 1
  /\ users = Users
  /\ redis = {}
  /\ reqs = [r \in Reqs |-> IdleReq]
  /\ env = ConfiguredEnv

\* the service constructed with any values of the two secrets
InitAnyEnv ==
  /\ tick = 1
  /\ users = Users
  /\ redis = {}
  /\ reqs = [r \in Reqs |-> IdleReq]
  /\ env \in [JWT_SECRET : SecretValues, JWT_REFRESH_SECRET : SecretValues]

\* ------------------------------------------------------------------- login
\* "short": a password the schema rejects
LoginBodies ==
  [email : Users \cup NewUsers, password : {"right", "wrong"}]
    \cup {[email |-> 0, password |-> "short"]}

\* loginSchema.safeParse(req.body): the password has at least 8 characters
LoginValid(body) == body.password # "short"

\* userService.getFullUserByEmail(email): the id of the row, or undefined
getFullUserByEmail(email) == IF email \in users THEN Num(email) ELSE Null

\* authService.comparePassword(password, user.passwordHash)
comparePassword(password) == password = "right"

\* login up to the two store writes: validation, row lookup, password check,
\* minting; dbOk = FALSE: the query of getFullUserByEmail threw
LoginBegin(q, r, dbOk) ==
  IF ~LoginValid(q.body) THEN Reply(q, 400, "Validation error")
  ELSE IF ~dbOk
    THEN Reply([q EXCEPT !.failed = {"db"}], 500, "Failed to log in")
  ELSE IF Falsy(getFullUserByEmail(q.body.email))
    THEN Reply(q, 404, "User could not be found")
  ELSE IF ~comparePassword(q.body.password)
    THEN Reply([q EXCEPT !.user = getFullUserByEmail(q.body.email)], 401,
               "Invalid credentials")
  ELSE IF SignThrows
    THEN Reply([q EXCEPT !.user = getFullUserByEmail(q.body.email),
                         !.failed = {"sign"}], 500, "Failed to log in")
  ELSE [q EXCEPT !.pc = "issue_store",
                 !.user = getFullUserByEmail(q.body.email),
                 !.tokens = generateTokens(getFullUserByEmail(q.body.email)),
                 !.csrf = generateCSRFToken(r),
                 !.pend = {"refresh", "csrf"}]

LoginStart(r) ==
  /\ CanStart(r)
  /\ \E body \in LoginBodies :
       reqs' = [reqs EXCEPT ![r] =
                  LoginBegin([Arrive(r, "login") EXCEPT !.body = body], r, TRUE)]
  /\ UNCHANGED <<env, tick, users, redis>>

\* the effect on the store of one of the two writes of Promise.all
IssueWrite(store, q, w) ==
  IF w = "refresh"
    THEN storeRefreshToken(store, q.tokens.refreshToken, q.user)
    ELSE storeCSRFToken(store, q.csrf, q.user)

IssueFailure(q) ==
  IF q.op = "login" THEN "Failed to log in" ELSE "Failed to register user"

IssueSuccess(q) ==
  IF q.op = "login" THEN "User logged in successfully" ELSE "User registered successfully"

\* what login and register do when one of the writes settles: Promise.all
\* rejects on the first failure (catch: 500), resolves when both have
\* succeeded (cookies, 200)
IssueSettled(q, w, ok) ==
  LET q1 == [q EXCEPT !.pend = @ \ {w},
                      !.landed = IF ok THEN @ \cup {w} ELSE @,
                      !.failed = IF ok THEN @ ELSE @ \cup {w}]
      q2 == IF Responded(q1) THEN q1
            ELSE IF ~ok
              THEN [q1 EXCEPT !.status = 500, !.msg = IssueFailure(q)]
            ELSE IF q1.pend = {}
              THEN [q1 EXCEPT !.status = 200, !.msg = IssueSuccess(q),
                              !.csrfOut = q.csrf,
                              !.cookies = setSecureCookies(q.tokens.accessToken,
                                                           q.tokens.refreshToken)]
            ELSE q1
  IN [q2 EXCEPT !.pc = IF q2.pend = {} THEN "done" ELSE "issue_store"]

\* both commands are sent before the handler awaits, storeRefreshToken first;
\* the store serves the commands of the one connection in the order sent
NextWrite(q) == IF "refresh" \in q.pend THEN "refresh" ELSE "csrf"

\* the next of the two store writes lands
IssueStore(r) ==
  /\ reqs[r].pc = "issue_store"
  /\ redis' = IssueWrite(redis, reqs[r], NextWrite(reqs[r]))
  /\ reqs' = [reqs EXCEPT ![r] = IssueSettled(reqs[r], NextWrite(reqs[r]), TRUE)]
  /\ UNCHANGED <<env, tick, users>>

\* faults: the query of login throws; one of its store writes is rejected
LoginDbFault(r) ==
  /\ CanStart(r)
  /\ \E body \in LoginBodies :
       /\ LoginValid(body)
       /\ reqs' = [reqs EXCEPT ![r] =
                     LoginBegin([Arrive(r, "login") EXCEPT !.body = body], r, FALSE)]
  /\ UNCHANGED <<env, tick, users, redis>>

IssueStoreFault(r) ==
  /\ reqs[r].pc = "issue_store"
  /\ reqs' = [reqs EXCEPT ![r] = IssueSettled(reqs[r], NextWrite(reqs[r]), FALSE)]
  /\ UNCHANGED <<env, tick, users, redis>>

\* ---------------------------------------------------------------- register
RegisterBodies == LoginBodies

\* userService.getUserByEmail(email)
getUserByEmail(email) == IF email \in users THEN Num(email) ELSE Null

\* register up to the await of createUser: validation, duplicate check
RegisterBegin(q) ==
  IF ~LoginValid(q.body) THEN Reply(q, 400, "Validation error")
  ELSE IF ~Falsy(getUserByEmail(q.body.email))
    THEN Reply(q, 409, "User with this email already exists")
  ELSE [q EXCEPT !.pc = "register_create"]

RegisterStart(r) ==
  /\ CanStart(r)
  /\ \E body \in RegisterBodies :
       reqs' = [reqs EXCEPT ![r] =
                  RegisterBegin([Arrive(r, "register") EXCEPT !.body = body])]
  /\ UNCHANGED <<env, tick, users, redis>>

\* createUser: the insert throws when the address has a row by now (unique
\* email); otherwise the row exists, tokens are minted and both store writes
\* are issued
RegisterCreated(q, r) ==
  IF q.body.email \in users
    THEN Reply([q EXCEPT !.failed = {"db"}], 500, "Failed to register user")
  ELSE IF SignThrows
    THEN Reply([q EXCEPT !.user = Num(q.body.email), !.failed = {"sign"}], 500,
               "Failed to register user")
    ELSE [q EXCEPT !.pc = "issue_store",
                   !.user = Num(q.body.email),
                   !.tokens = generateTokens(Num(q.body.email)),
                   !.csrf = generateCSRFToken(r),
                   !.pend = {"refresh", "csrf"}]

RegisterCreate(r) ==
  /\ reqs[r].pc = "register_create"
  /\ reqs' = [reqs EXCEPT ![r] = RegisterCreated(reqs[r], r)]
  /\ users' = users \cup {reqs[r].body.email}
  /\ UNCHANGED <<env, tick, redis>>

\* ------------------------------------------------------ csrf-token endpoint
\* getCSRFToken up to the await of storeCSRFToken; reqUser: req.user.id, null
\* when no middleware set req.user
CsrfBegin(q, r, reqUser) ==
  IF Falsy(reqUser) THEN Reply(q, 401, "User not authenticated")
  ELSE [q EXCEPT !.pc = "csrf_store", !.user = reqUser, !.csrf = generateCSRFToken(r)]

CsrfStart(r) ==
  /\ CanStart(r)
  /\ \E reqUser \in {Num(u) : u \in users} \cup {Null} :
       reqs' = [reqs EXCEPT ![r] = CsrfBegin(Arrive(r, "csrf"), r, reqUser)]
  /\ UNCHANGED <<env, tick, users, redis>>

CsrfStored(q) ==
  [Reply(q, 200, "CSRF token successfully generated")
     EXCEPT !.landed = {"csrf"}, !.csrfOut = q.csrf]

CsrfResume(r) ==
  /\ reqs[r].pc = "csrf_store"
  /\ redis' = storeCSRFToken(redis, reqs[r].csrf, reqs[r].user)
  /\ reqs' = [reqs EXCEPT ![r] = CsrfStored(reqs[r])]
  /\ UNCHANGED <<env, tick, users>>

CsrfFault(r) ==
  /\ reqs[r].pc = "csrf_store"
  /\ reqs' = [reqs EXCEPT ![r] =
                Reply([reqs[r] EXCEPT !.failed = {"csrf"}], 500,
                      "Failed to generate CSRF token")]
  /\ UNCHANGED <<env, tick, users, redis>>

\* ----------------------------------------------------------------- refresh
\* a token no secret of the service signed
Forged == [secret |-> "forged", userId |-> Num(1), iat |-> 0, exp |-> JWT_REFRESH_EXPIRES_IN]

\* the refresh tokens the service has minted so far
Minted == {reqs[j].tokens.refreshToken : j \in {i \in Reqs : reqs[i].tokens # NoTokens}}

\* what a client can send as the refreshToken cookie (NoToken: no cookie)
RefreshCookies == {NoToken, Forged} \cup Minted

\* userService.getUserById(id): the id of the row, or undefined
getUserById(id) == IF id.t = "number" /\ id.v \in users THEN id ELSE Null


\* variant: the subjects are compared by value, the number against its text
RefreshMismatch_ByValue(decoded, storedUserId) ==
  Falsy(decoded) \/ ToStr(decoded) # storedUserId

\* the check of the presented token against the store entry:
\* !decoded || decoded['userId'] !== storedUserId
RefreshMismatch(decoded, storedUserId) ==
  Falsy(decoded) \/ StrictNeq(decoded, storedUserId)

\* refreshToken up to its second await: cookie, store lookup, verification
RefreshBegin(q, store) ==
  IF q.tok = NoToken THEN Reply(q, 401, "Refresh token required")
  ELSE LET storedUserId == getRefreshTokenUserId(store, q.tok)
           decoded == verifyRefreshToken(q.tok)
       IN IF Falsy(storedUserId)
            THEN [Reply(q, 403, "Invalid refresh token") EXCEPT !.cookies = clearAuthCookies]
          ELSE IF RefreshMismatch(decoded, storedUserId)
            THEN [q EXCEPT !.pc = "refresh_revoke", !.stored = storedUserId,
                           !.decoded = decoded]
          ELSE [q EXCEPT !.pc = "refresh_user", !.stored = storedUserId,
                         !.decoded = decoded]

RefreshStart(r) ==
  /\ CanStart(r)
  /\ \E t \in RefreshCookies :
       reqs' = [reqs EXCEPT ![r] =
                  RefreshBegin([Arrive(r, "refresh") EXCEPT !.tok = t], redis)]
  /\ UNCHANGED <<env, tick, users, redis>>

\* refreshToken from one await to the next: the request after the step
RefreshNextReq(q, r) ==
  CASE q.pc = "refresh_revoke" ->
         [Reply(q, 403, "Invalid or expired refresh token")
            EXCEPT !.cookies = clearAuthCookies]
    [] q.pc = "refresh_user" ->
         IF Falsy(getUserById(q.decoded))
           THEN [q EXCEPT !.pc = "refresh_gone"]
         ELSE IF SignThrows
           THEN Reply([q EXCEPT !.failed = {"sign"}], 500, "Failed to refresh tokens")
           ELSE [q EXCEPT !.pc = "refresh_rotate", !.user = getUserById(q.decoded),
                          !.tokens = generateTokens(getUserById(q.decoded))]
    [] q.pc = "refresh_gone" ->
         [Reply(q, 403, "User not found") EXCEPT !.cookies = clearAuthCookies]
    [] q.pc = "refresh_rotate" -> [q EXCEPT !.pc = "refresh_store"]
    [] q.pc = "refresh_store" ->
         [q EXCEPT !.pc = "refresh_csrf", !.landed = @ \cup {"refresh"},
                   !.csrf = generateCSRFToken(r)]
    [] q.pc = "refresh_csrf" ->
         [Reply(q, 200, "Tokens refreshed successfully")
            EXCEPT !.landed = @ \cup {"csrf"}, !.csrfOut = q.csrf,
                   !.cookies = setSecureCookies(q.tokens.accessToken,
                                                q.tokens.refreshToken)]


\* variant: a rejected refresh leaves the entry of the presented token
RefreshNextStore_KeepsEntry(q, store) ==
  CASE q.pc = "refresh_rotate" -> deleteRefreshToken(store, q.tok)
    [] q.pc = "refresh_store" -> storeRefreshToken(store, q.tokens.refreshToken, q.user)
    [] q.pc = "refresh_csrf" -> storeCSRFToken(store, q.csrf, q.user)
    [] OTHER -> store


\* variant: a rejected refresh also drops the CSRF token of the stored user
RefreshNextStore_DropsCsrf(q, store) ==
  CASE q.pc \in {"refresh_revoke", "refresh_gone"} ->
         deleteCSRFToken(deleteRefreshToken(store, q.tok), q.stored)
    [] q.pc = "refresh_rotate" -> deleteRefreshToken(store, q.tok)
    [] q.pc = "refresh_store" -> storeRefreshToken(store, q.tokens.refreshToken, q.user)
    [] q.pc = "refresh_csrf" -> storeCSRFToken(store, q.csrf, q.user)
    [] OTHER -> store

\* refreshToken from one await to the next: the store after the step
RefreshNextStore(q, store) ==
  CASE q.pc \in {"refresh_revoke", "refresh_gone", "refresh_rotate"} ->
         deleteRefreshToken(store, q.tok)
    [] q.pc = "refresh_store" -> storeRefreshToken(store, q.tokens.refreshToken, q.user)
    [] q.pc = "refresh_csrf" -> storeCSRFToken(store, q.csrf, q.user)
    [] OTHER -> store

RefreshPcs ==
  {"refresh_revoke", "refresh_user", "refresh_gone", "refresh_rotate",
   "refresh_store", "refresh_csrf"}

RefreshResume(r) ==
  /\ reqs[r].pc \in RefreshPcs
  /\ reqs' = [reqs EXCEPT ![r] = RefreshNextReq(reqs[r], r)]
  /\ redis' = RefreshNextStore(reqs[r], redis)
  /\ UNCHANGED <<env, tick, users>>

\* variant: a failed store call is taken for an absent key
RefreshCaught_AsAbsent(q, what) ==
  [Reply([q EXCEPT !.failed = @ \cup {what}], 403, "Invalid refresh token")
     EXCEPT !.cookies = clearAuthCookies]

\* the catch of refreshToken
RefreshCaught(q, what) ==
  Reply([q EXCEPT !.failed = @ \cup {what}], 500, "Failed to refresh tokens")

\* faults: the store lookup throws; a later store or database call throws
RefreshStartFault(r) ==
  /\ CanStart(r)
  /\ \E t \in RefreshCookies \ {NoToken} :
       reqs' = [reqs EXCEPT ![r] =
                  RefreshCaught([Arrive(r, "refresh") EXCEPT !.tok = t], "get")]
  /\ UNCHANGED <<env, tick, users, redis>>

RefreshFault(r) ==
  /\ reqs[r].pc \in RefreshPcs
  /\ reqs' = [reqs EXCEPT ![r] = RefreshCaught(reqs[r], reqs[r].pc)]
  /\ UNCHANGED <<env, tick, users, redis>>

\* ------------------------------------------------------------------ logout
LogoutReply(q) ==
  [Reply(q, 200, "User logged out successfully") EXCEPT !.cookies = clearAuthCookies]

\* logout up to its second await: cookie and store lookup
LogoutBegin(q, store) ==
  IF q.tok = NoToken THEN LogoutReply(q)
  ELSE LET storedUserId == getRefreshTokenUserId(store, q.tok)
       IN IF Falsy(storedUserId) THEN LogoutReply(q)
          ELSE [q EXCEPT !.pc = "logout_refresh", !.stored = storedUserId]

LogoutStart(r) ==
  /\ CanStart(r)
  /\ \E t \in RefreshCookies :
       reqs' = [reqs EXCEPT ![r] =
                  LogoutBegin([Arrive(r, "logout") EXCEPT !.tok = t], redis)]
  /\ UNCHANGED <<env, tick, users, redis>>

\* deleteRefreshToken(refreshToken), then deleteCSRFToken(storedUserId)
LogoutNextReq(q) ==
  IF q.pc = "logout_refresh" THEN [q EXCEPT !.pc = "logout_csrf"] ELSE LogoutReply(q)

\* variant: the CSRF entry of the user is left in the store
LogoutNextStore_KeepsCsrf(q, store) ==
  IF q.pc = "logout_refresh" THEN deleteRefreshToken(store, q.tok) ELSE store

\* variant: the refresh entry is left in the store
LogoutNextStore_KeepsRefresh(q, store) ==
  IF q.pc = "logout_refresh" THEN store ELSE deleteCSRFToken(store, q.stored)

LogoutNextStore(q, store) ==
  IF q.pc = "logout_refresh"
    THEN deleteRefreshToken(store, q.tok)
    ELSE deleteCSRFToken(store, q.stored)

LogoutResume(r) ==
  /\ reqs[r].pc \in {"logout_refresh", "logout_csrf"}
  /\ reqs' = [reqs EXCEPT ![r] = LogoutNextReq(reqs[r])]
  /\ redis' = LogoutNextStore(reqs[r], redis)
  /\ UNCHANGED <<env, tick, users>>

\* the catch of logout
LogoutCaught(q, what) ==
  Reply([q EXCEPT !.failed = @ \cup {what}], 500, "Failed to log out")

LogoutStartFault(r) ==
  /\ CanStart(r)
  /\ \E t \in RefreshCookies \ {NoToken} :
       reqs' = [reqs EXCEPT ![r] =
                  LogoutCaught([Arrive(r, "logout") EXCEPT !.tok = t], "get")]
  /\ UNCHANGED <<env, tick, users, redis>>

LogoutFault(r) ==
  /\ reqs[r].pc \in {"logout_refresh", "logout_csrf"}
  /\ reqs' = [reqs EXCEPT ![r] = LogoutCaught(reqs[r], reqs[r].pc)]
  /\ UNCHANGED <<env, tick, users, redis>>

\* --------------------------------------------------------------- logoutAll
\* redis.keys('refresh_token:*'): the tokens that have an entry
RedisKeys(store) == {e.key.tok : e \in {x \in store : x.key.ns = "refresh_token" /\ x.exp > Now}}

LogoutAllReply(q) ==
  [Reply(q, 200, "Logged out from all devices successfully")
     EXCEPT !.cookies = clearAuthCookies]

\* logoutAll up to its first await; reqUser: req.user.id, null when req.user
\* is not set. userId is req.user.id.toString()
LogoutAllBegin(q, reqUser) ==
  IF Falsy(reqUser) THEN LogoutAllReply(q)
  ELSE [q EXCEPT !.pc = "all_keys", !.user = ToStr(reqUser)]

LogoutAllStart(r) ==
  /\ CanStart(r)
  /\ \E reqUser \in {Num(u) : u \in users} \cup {Null} :
       reqs' = [reqs EXCEPT ![r] = LogoutAllBegin(Arrive(r, "logoutAll"), reqUser)]
  /\ UNCHANGED <<env, tick, users, redis>>

\* the loop of deleteAllUserRefreshTokens: where it goes with ks left to visit
LogoutAllLoop(q, ks) ==
  [q EXCEPT !.keys = ks, !.key = NoToken,
            !.pc = IF ks = {} THEN "all_csrf" ELSE "all_get"]

\* variant: the loop deletes every key it visits, whatever its value
LogoutAllNextReq_AnyUser(q, store, k) ==
  CASE q.pc = "all_keys" -> LogoutAllLoop(q, RedisKeys(store))
    [] q.pc = "all_get" -> [q EXCEPT !.pc = "all_del", !.key = k, !.keys = @ \ {k}]
    [] q.pc = "all_del" -> LogoutAllLoop(q, q.keys)
    [] q.pc = "all_csrf" -> LogoutAllReply(q)

\* logoutAll from one await to the next: the request after the step; k is
\* the key the loop visits next (redis.keys returns them in no given order)
LogoutAllNextReq(q, store, k) ==
  CASE q.pc = "all_keys" -> LogoutAllLoop(q, RedisKeys(store))
    [] q.pc = "all_get" ->
         IF RedisGet(store, RefreshKey(k)) = q.user
           THEN [q EXCEPT !.pc = "all_del", !.key = k, !.keys = @ \ {k}]
           ELSE LogoutAllLoop(q, q.keys \ {k})
    [] q.pc = "all_del" -> LogoutAllLoop(q, q.keys)
    [] q.pc = "all_csrf" -> LogoutAllReply(q)

\* variant: the refresh entries are left in the store
LogoutAllNextStore_KeepsRefresh(q, store) ==
  IF q.pc = "all_csrf" THEN deleteCSRFToken(store, q.user) ELSE store

\* logoutAll from one await to the next: the store after the step
LogoutAllNextStore(q, store) ==
  CASE q.pc = "all_del" -> RedisDel(store, RefreshKey(q.key))
    [] q.pc = "all_csrf" -> deleteCSRFToken(store, q.user)
    [] OTHER -> store

LogoutAllPcs == {"all_keys", "all_get", "all_del", "all_csrf"}

LogoutAllResume(r) ==
  /\ reqs[r].pc \in LogoutAllPcs
  /\ \E k \in IF reqs[r].pc = "all_get" THEN reqs[r].keys ELSE {NoToken} :
       reqs' = [reqs EXCEPT ![r] = LogoutAllNextReq(reqs[r], redis, k)]
  /\ redis' = LogoutAllNextStore(reqs[r], redis)
  /\ UNCHANGED <<env, tick, users>>

\* ------------------------------------------------- the gate (middleware)
\* validateCSRFToken(token, userId): the stored token of the user is read;
\* absent: false; otherwise the presented token is compared with it
validateCSRFToken(store, token, userId) ==
  LET stored == getCSRFToken(store, userId)
  IN IF Falsy(stored) THEN FALSE ELSE token = stored

\* variant: the Authorization header first, then the cookie
extractToken_HeaderFirst(q) ==
  IF q.authorization.scheme = "Bearer" THEN q.authorization.tok
  ELSE IF q.accessCookie # NoToken THEN q.accessCookie
  ELSE NoToken

\* extractToken(req): the cookie first, then 'Authorization: Bearer <token>'
extractToken(q) ==
  IF q.accessCookie # NoToken THEN q.accessCookie
  ELSE IF q.authorization.scheme = "Bearer" THEN q.authorization.tok
  ELSE NoToken

\* variant: only GET is exempt
CsrfSafeMethod_GetOnly(method) == method = "GET"

\* variant: POST counts as a safe method
CsrfSafeMethod_Post(method) == method \in {"GET", "HEAD", "OPTIONS", "POST"}

\* ['GET', 'HEAD', 'OPTIONS'].includes(req.method)
CsrfSafeMethod(method) == method \in {"GET", "HEAD", "OPTIONS"}

\* csrfProtection up to the await of validateCSRFToken
csrfProtection(q) ==
  IF CsrfSafeMethod(q.method) THEN [Reply(q, 200, "handler") EXCEPT !.reached = TRUE]
  ELSE IF Falsy(q.user) THEN Reply(q, 401, "Authentication required for CSRF validation")
  ELSE IF Falsy(q.csrfHeader) THEN Reply(q, 403, "CSRF token required")
  ELSE [q EXCEPT !.pc = "gate_csrf"]

\* the routers: authenticate, the get routes, csrfProtection, the other routes
AfterAuthenticate(q) ==
  IF q.early THEN [Reply(q, 200, "handler") EXCEPT !.reached = TRUE]
  ELSE csrfProtection(q)

\* authenticate, the row lookup of getUserById included
authenticate(q) ==
  LET token == extractToken(q)
      decoded == verifyAccessToken(token)
  IN IF token = NoToken THEN Reply(q, 401, "Access token required")
     ELSE IF Falsy(decoded) THEN Reply(q, 403, "Invalid or expired access token")
     ELSE IF Falsy(getUserById(decoded)) THEN Reply(q, 403, "User not found")
     ELSE AfterAuthenticate([q EXCEPT !.user = getUserById(decoded)])

\* the access tokens the service has minted so far
MintedAccess == {reqs[j].tokens.accessToken : j \in {i \in Reqs : reqs[i].tokens # NoTokens}}

AccessCandidates == {Forged} \cup MintedAccess

\* the CSRF tokens the service has generated so far
IssuedCsrf == {reqs[j].csrf : j \in {i \in Reqs : ~Falsy(reqs[i].csrf)}}

\* a value the service never generated
ForgedCsrf == Str(0)

GateMethods == {"GET", "HEAD", "OPTIONS", "POST", "PUT", "PATCH", "DELETE"}

\* the requests a client can send to a protected route; the routes registered
\* before csrfProtection are get routes
GateInputs ==
  {i \in [method : GateMethods, early : BOOLEAN,
          accessCookie : {NoToken} \cup AccessCandidates,
          authorization : {NoAuth} \cup {[scheme |-> "Bearer", tok |-> t] : t \in AccessCandidates},
          csrfHeader : {Null, ForgedCsrf} \cup IssuedCsrf] :
     i.early => i.method = "GET"}

GateArrive(r, i) ==
  [Arrive(r, "gate") EXCEPT !.method = i.method, !.early = i.early,
                            !.accessCookie = i.accessCookie,
                            !.authorization = i.authorization,
                            !.csrfHeader = i.csrfHeader]

GateStart(r) ==
  /\ CanStart(r)
  /\ \E i \in GateInputs :
       reqs' = [reqs EXCEPT ![r] = authenticate(GateArrive(r, i))]
  /\ UNCHANGED <<env, tick, users, redis>>

\* the requests that carry their access token in the cookie only, one safe
\* and one unsafe method
CookieInputs ==
  {i \in GateInputs : /\ i.authorization = NoAuth /\ i.accessCookie # NoToken
                      /\ i.method \in {"GET", "POST"} /\ ~i.early}

GateStartCookie(r) ==
  /\ CanStart(r)
  /\ \E i \in CookieInputs :
       reqs' = [reqs EXCEPT ![r] = authenticate(GateArrive(r, i))]
  /\ UNCHANGED <<env, tick, users, redis>>

\* csrfProtection after the await of validateCSRFToken
CsrfChecked(q, isValid) ==
  IF ~isValid THEN Reply(q, 403, "Invalid CSRF token")
  ELSE [Reply(q, 200, "handler") EXCEPT !.reached = TRUE]

GateCsrf(r) ==
  /\ reqs[r].pc = "gate_csrf"
  /\ reqs' = [reqs EXCEPT ![r] =
                CsrfChecked(reqs[r],
                            validateCSRFToken(redis, reqs[r].csrfHeader, reqs[r].user))]
  /\ UNCHANGED <<env, tick, users, redis>>

\* variant: a catch block that lets the request through
GateCaught_FailOpen(q, what) ==
  [Reply([q EXCEPT !.failed = @ \cup {what}], 200, "handler") EXCEPT !.reached = TRUE]

\* the catch blocks of authenticate and csrfProtection
GateCaught(q, what) ==
  Reply([q EXCEPT !.failed = @ \cup {what}], 500,
        IF what = "db" THEN "Authentication failed" ELSE "CSRF validation failed")

\* faults: getUserById throws; validateCSRFToken throws
GateDbFault(r) ==
  /\ CanStart(r)
  /\ \E i \in GateInputs :
       /\ ~Falsy(verifyAccessToken(extractToken(GateArrive(r, i))))
       /\ reqs' = [reqs EXCEPT ![r] = GateCaught(GateArrive(r, i), "db")]
  /\ UNCHANGED <<env, tick, users, redis>>

GateCsrfFault(r) ==
  /\ reqs[r].pc = "gate_csrf"
  /\ reqs' = [reqs EXCEPT ![r] = GateCaught(reqs[r], "csrf")]
  /\ UNCHANGED <<env, tick, users, redis>>

\* ------------------------------- the CSRF middleware of AuthService
\* crypto.randomBytes(32).toString('hex'): 64 characters
CsrfHexLength == 64

\* a header value shorter than a generated token
ShortCsrf == Str(-1)

\* Buffer.from(x).length of a header value or a stored token
ByteLength(x) == IF x = ShortCsrf THEN 1 ELSE CsrfHexLength

\* verifyCSRFToken(token, sessionToken): crypto.timingSafeEqual throws a
\* RangeError when the two buffers differ in length
verifyCSRFToken(token, sessionToken) ==
  IF ByteLength(token) # ByteLength(sessionToken) THEN "throws"
  ELSE IF token = sessionToken THEN "true"
  ELSE "false"

\* cookie first, then the second word of the Authorization header
ServiceToken(q) ==
  IF q.accessCookie # NoToken THEN q.accessCookie ELSE q.authorization.tok

\* createCSRFProtectionMiddleware up to the await of getCSRFToken
createCSRFProtectionMiddleware(q) ==
  IF CsrfSafeMethod(q.method) THEN [Reply(q, 200, "handler") EXCEPT !.reached = TRUE]
  ELSE IF Falsy(q.csrfHeader) THEN Reply(q, 403, "CSRF token required")
  ELSE IF ServiceToken(q) = NoToken
    THEN Reply(q, 401, "Access token required for CSRF validation")
  ELSE IF Falsy(verifyAccessToken(ServiceToken(q)))
    THEN Reply(q, 403, "Invalid access token")
  ELSE [q EXCEPT !.pc = "service_csrf", !.user = verifyAccessToken(ServiceToken(q))]

\* the requests a client can send through the middleware
ServiceInputs ==
  [method : {"GET", "POST"},
   accessCookie : {NoToken} \cup AccessCandidates,
   authorization : {NoAuth},
   csrfHeader : {Null, ForgedCsrf, ShortCsrf} \cup IssuedCsrf]

ServiceCsrfStart(r) ==
  /\ CanStart(r)
  /\ \E i \in ServiceInputs :
       reqs' = [reqs EXCEPT ![r] =
                  createCSRFProtectionMiddleware(
                    [Arrive(r, "csrfmw") EXCEPT !.method = i.method,
                                                !.accessCookie = i.accessCookie,
                                                !.authorization = i.authorization,
                                                !.csrfHeader = i.csrfHeader])]
  /\ UNCHANGED <<env, tick, users, redis>>

\* createCSRFProtectionMiddleware after the await of getCSRFToken
CsrfCompared(q, storedCSRFToken) ==
  LET q1 == [q EXCEPT !.stored = storedCSRFToken]
  IN IF Falsy(storedCSRFToken) THEN Reply(q1, 403, "Invalid CSRF token")
     ELSE CASE verifyCSRFToken(q.csrfHeader, storedCSRFToken) = "throws" ->
                 Reply([q1 EXCEPT !.failed = {"verify"}], 500, "Internal server error")
            [] verifyCSRFToken(q.csrfHeader, storedCSRFToken) = "false" ->
                 Reply(q1, 403, "Invalid CSRF token")
            [] OTHER -> [Reply(q1, 200, "handler") EXCEPT !.reached = TRUE]

ServiceCsrfResume(r) ==
  /\ reqs[r].pc = "service_csrf"
  /\ reqs' = [reqs EXCEPT ![r] = CsrfCompared(reqs[r], getCSRFToken(redis, reqs[r].user))]
  /\ UNCHANGED <<env, tick, users, redis>>

\* ------------------------------------------------------------ environment
\* a row of the users table is deleted
DeleteUser ==
  /\ \E u \in users : users' = users \ {u}
  /\ UNCHANGED <<env, tick, redis, reqs>>

\* the clock moves to the next instant; Redis drops the entries whose TTL has
\* elapsed
Tick ==
  /\ tick < MaxTick
  /\ tick < Len(Instants)
  /\ tick' = tick + 1
  /\ redis' = {e \in redis : e.exp > Instants[tick + 1]}
  /\ UNCHANGED <<env, users, reqs>>

\* the clock moves on as far as the lifetimes of tokens and entries reach
Elapse ==
  /\ tick < MaxElapse
  /\ tick < Len(Instants)
  /\ tick' = tick + 1
  /\ redis' = {e \in redis : e.exp > Instants[tick + 1]}
  /\ UNCHANGED <<env, users, reqs>>

Next ==
  \/ \E r \in Reqs : LoginStart(r)
  \/ \E r \in Reqs : IssueStore(r)
  \/ \E r \in Reqs : RefreshStart(r)
  \/ \E r \in Reqs : RefreshResume(r)
  \/ \E r \in Reqs : LogoutStart(r)
  \/ \E r \in Reqs : LogoutResume(r)
  \/ \E r \in Reqs : RegisterStart(r)
  \/ \E r \in Reqs : RegisterCreate(r)
  \/ \E r \in Reqs : CsrfStart(r)
  \/ \E r \in Reqs : CsrfResume(r)
  \/ Tick

Spec == Init /\ [][Next]_vars

\* login under database and store faults
NextLoginFaults ==
  \/ \E r \in Reqs : LoginStart(r)
  \/ \E r \in Reqs : IssueStore(r)
  \/ \E r \in Reqs : LoginDbFault(r)
  \/ \E r \in Reqs : IssueStoreFault(r)
  \/ Tick

SpecLoginFaults == Init /\ [][NextLoginFaults]_vars

\* protected routes behind the gate, at one instant of the clock
NextGate ==
  \/ \E r \in Reqs : LoginStart(r)
  \/ \E r \in Reqs : IssueStore(r)
  \/ \E r \in Reqs : GateStart(r)
  \/ \E r \in Reqs : GateCsrf(r)
  \/ \E r \in Reqs : GateDbFault(r)
  \/ \E r \in Reqs : GateCsrfFault(r)
  \/ DeleteUser

SpecGate == Init /\ [][NextGate]_vars

\* login, refresh and logout from all devices
NextLogoutAll ==
  \/ \E r \in Reqs : LoginStart(r)
  \/ \E r \in Reqs : IssueStore(r)
  \/ \E r \in Reqs : RefreshStart(r)
  \/ \E r \in Reqs : RefreshResume(r)
  \/ \E r \in Reqs : LogoutAllStart(r)
  \/ \E r \in Reqs : LogoutAllResume(r)
  \/ Tick

SpecLogoutAll == Init /\ [][NextLogoutAll]_vars

\* issuance of tokens and entries while their lifetimes run out
NextExpiry ==
  \/ \E r \in Reqs : LoginStart(r)
  \/ \E r \in Reqs : IssueStore(r)
  \/ \E r \in Reqs : CsrfStart(r)
  \/ \E r \in Reqs : CsrfResume(r)
  \/ Elapse

SpecExpiry == Init /\ [][NextExpiry]_vars

\* refresh and the gate while the lifetimes of the signed tokens run out
NextExpired ==
  \/ \E r \in Reqs : LoginStart(r)
  \/ \E r \in Reqs : IssueStore(r)
  \/ \E r \in Reqs : RefreshStart(r)
  \/ \E r \in Reqs : RefreshResume(r)
  \/ \E r \in Reqs : GateStartCookie(r)
  \/ \E r \in Reqs : GateCsrf(r)
  \/ Elapse

SpecExpired == Init /\ [][NextExpired]_vars

\* refresh, logout and the CSRF check while store calls fail
NextStoreFaults ==
  \/ \E r \in Reqs : LoginStart(r)
  \/ \E r \in Reqs : IssueStore(r)
  \/ \E r \in Reqs : RefreshStart(r)
  \/ \E r \in Reqs : RefreshResume(r)
  \/ \E r \in Reqs : RefreshStartFault(r)
  \/ \E r \in Reqs : RefreshFault(r)
  \/ \E r \in Reqs : LogoutStart(r)
  \/ \E r \in Reqs : LogoutResume(r)
  \/ \E r \in Reqs : LogoutStartFault(r)
  \/ \E r \in Reqs : LogoutFault(r)
  \/ \E r \in Reqs : GateStartCookie(r)
  \/ \E r \in Reqs : GateCsrf(r)
  \/ \E r \in Reqs : GateCsrfFault(r)

SpecStoreFaults == Init /\ [][NextStoreFaults]_vars


\* a client presenting, as its accessToken cookie, a refresh token the service
\* minted
RefreshAsAccessInputs ==
  {i \in [method : {"GET", "POST"}, early : {FALSE}, accessCookie : Minted,
          authorization : {NoAuth}, csrfHeader : {Null} \cup IssuedCsrf] : TRUE}

GateStartRefreshCookie(r) ==
  /\ CanStart(r)
  /\ \E i \in RefreshAsAccessInputs :
       reqs' = [reqs EXCEPT ![r] = authenticate(GateArrive(r, i))]
  /\ UNCHANGED <<env, tick, users, redis>>

\* the service under every configuration of the two secrets: logins, and the
\* gate presented with access tokens and with refresh tokens
NextAnyEnv ==
  \/ \E r \in Reqs : LoginStart(r)
  \/ \E r \in Reqs : IssueStore(r)
  \/ \E r \in Reqs : GateStartCookie(r)
  \/ \E r \in Reqs : GateStartRefreshCookie(r)
  \/ \E r \in Reqs : GateCsrf(r)

SpecAnyEnv == InitAnyEnv /\ [][NextAnyEnv]_vars


\* login and refresh while user rows are deleted
NextRefreshGone ==
  \/ \E r \in Reqs : LoginStart(r)
  \/ \E r \in Reqs : IssueStore(r)
  \/ \E r \in Reqs : RefreshStart(r)
  \/ \E r \in Reqs : RefreshResume(r)
  \/ DeleteUser

SpecRefreshGone == Init /\ [][NextRefreshGone]_vars

\* login and the CSRF middleware of AuthService
NextServiceCsrf ==
  \/ \E r \in Reqs : LoginStart(r)
  \/ \E r \in Reqs : IssueStore(r)
  \/ \E r \in Reqs : ServiceCsrfStart(r)
  \/ \E r \in Reqs : ServiceCsrfResume(r)

SpecServiceCsrf == Init /\ [][NextServiceCsrf]_vars

\* ================================================================== claims

\* Every refresh of a registered token takes the mismatch branch: no refresh
\* ever answers 200 or writes to the store (see C3).
RefreshNeverRotates ==
  \A r \in Reqs :
    reqs[r].op = "refresh" =>
      /\ reqs[r].status # 200
      /\ reqs[r].landed = {}
      /\ reqs[r].pc \notin {"refresh_user", "refresh_gone", "refresh_rotate",
                            "refresh_store", "refresh_csrf"}

\* the presented token was registered for the subject it was signed for, it
\* verified, the principal exists and no call of the request threw
LegitRefresh(q) ==
  /\ q.op = "refresh"
  /\ ~Falsy(q.stored)
  /\ ~Falsy(q.decoded)
  /\ ToStr(q.decoded) = q.stored
  /\ q.decoded.v \in users
  /\ q.failed = {}

RefreshSucceeded(q) ==
  /\ q.status = 200
  /\ q.landed = {"refresh", "csrf"}
  /\ q.cookies.change = "set"
  /\ ~Falsy(q.csrfOut)

\* C2: of two concurrent refreshes presenting the same registered token,
\* exactly one succeeds and the other is rejected with 403.
C2_ExactlyOneConcurrentRefreshWins ==
  \A a, b \in Reqs :
    ( /\ a < b
      /\ LegitRefresh(reqs[a])
      /\ reqs[b].op = "refresh"
      /\ reqs[b].tok = reqs[a].tok
      /\ reqs[b].failed = {}
      /\ Ended(reqs[a]) /\ Ended(reqs[b])
      /\ a \notin reqs[b].after )
    => \/ RefreshSucceeded(reqs[a]) /\ reqs[b].status = 403
       \/ RefreshSucceeded(reqs[b]) /\ reqs[a].status = 403

\* C3: a refresh that runs alone and presents a registered, verifying token
\* of an existing principal succeeds: 200, new cookies, new store entries.
C3_RegisteredTokenRefreshes ==
  \A r \in Reqs :
    (Alone(r) /\ LegitRefresh(reqs[r])) => RefreshSucceeded(reqs[r])

\* every request that minted token t had ended when request a arrived
NoLoginSince(a, t) ==
  \A j \in Reqs : reqs[j].tokens.refreshToken = t => j \in reqs[a].after

LoggedOut(a) ==
  /\ reqs[a].op = "logout"
  /\ Ended(reqs[a])
  /\ reqs[a].status = 200
  /\ reqs[a].tok # NoToken
  /\ NoLoginSince(a, reqs[a].tok)

\* C4: once logout(T) has completed, T is not registered any more and every
\* refresh of T that arrives later finds no entry, is answered 403 and mints
\* nothing (as long as no login or register mints T again).
C4_LogoutRevokes ==
  \A a \in Reqs :
    LoggedOut(a) =>
      /\ Falsy(getRefreshTokenUserId(redis, reqs[a].tok))
      /\ \A b \in Reqs :
           (reqs[b].op = "refresh" /\ reqs[b].tok = reqs[a].tok /\ a \in reqs[b].after)
           => /\ Ended(reqs[b])
              /\ reqs[b].status = 403
              /\ Falsy(reqs[b].stored)
              /\ reqs[b].landed = {}
              /\ reqs[b].cookies.change # "set"
              /\ Falsy(reqs[b].csrfOut)

\* C4 witness: a registered token was logged out and then presented to refresh
C4_Witness ==
  \E a, b \in Reqs :
    /\ LoggedOut(a)
    /\ ~Falsy(reqs[a].stored)
    /\ reqs[b].op = "refresh" /\ reqs[b].tok = reqs[a].tok /\ a \in reqs[b].after
    /\ reqs[b].status = 403

\* a login whose address has no row / whose password is wrong for its row
NoSuchUserLogin(q) ==
  /\ q.op = "login" /\ Ended(q) /\ LoginValid(q.body) /\ q.failed = {}
  /\ Falsy(q.user)

WrongPasswordLogin(q) ==
  /\ q.op = "login" /\ Ended(q) /\ q.failed = {}
  /\ ~Falsy(q.user) /\ q.body.password = "wrong"

\* C9: login answers an unknown address exactly as it answers a wrong
\* password: same status, same body.
C9_LoginDoesNotEnumerate ==
  \A a, b \in Reqs :
    (NoSuchUserLogin(reqs[a]) /\ WrongPasswordLogin(reqs[b]))
    => reqs[a].status = reqs[b].status /\ reqs[a].msg = reqs[b].msg

\* a login of which exactly one of the two store writes failed
PartialLogin(r) ==
  /\ reqs[r].op = "login"
  /\ Ended(reqs[r])
  /\ Cardinality(reqs[r].failed) = 1
  /\ Cardinality(reqs[r].landed) = 1
  /\ \A j \in Reqs \ {r} : reqs[j].tokens.refreshToken # reqs[r].tokens.refreshToken

\* C10: a login of which exactly one store write failed answers 500, hands out
\* no cookies and no CSRF token, and leaves none of its entries in the store.
C10_PartialLoginCleansUp ==
  \A r \in Reqs :
    PartialLogin(r) =>
      /\ reqs[r].status = 500
      /\ reqs[r].cookies.change = "none"
      /\ Falsy(reqs[r].csrfOut)
      /\ Falsy(getRefreshTokenUserId(redis, reqs[r].tokens.refreshToken))
      /\ getCSRFToken(redis, reqs[r].user) # reqs[r].csrf

\* the entries of the store under the CSRF key of subject s
CsrfEntries(store, s) == {e \in store : e.key.ns = "csrf_token" /\ e.key.id = s}

\* the live refresh entries registered for subject s
RefreshEntries(store, s) ==
  {e \in store : e.key.ns = "refresh_token" /\ e.val = Str(s) /\ e.exp > Now}

C6_Step ==
  /\ \A s \in Users \cup NewUsers : Cardinality(CsrfEntries(redis', s)) <= 1
  /\ \A r \in Reqs :
       ("csrf" \in reqs'[r].landed /\ "csrf" \notin reqs[r].landed) =>
         /\ getCSRFToken(redis', reqs'[r].user) = ToStr(reqs'[r].csrf)
         /\ \A j \in Reqs \ {r} : getCSRFToken(redis', reqs'[r].user) # reqs[j].csrf

\* C6: the store holds at most one CSRF token per subject, however many
\* refresh tokens the subject holds; when an issuance writes its token, that
\* token is the stored one and no token issued before is.
C6_OneCsrfPerSubject == [][C6_Step]_vars

\* C6 witness: a subject with two live refresh tokens and two issued CSRF
\* tokens, of which the store holds one
C6_Witness ==
  \E a, b \in Reqs :
    /\ a # b
    /\ "csrf" \in reqs[a].landed /\ "csrf" \in reqs[b].landed
    /\ reqs[a].user = reqs[b].user
    /\ Cardinality(RefreshEntries(redis, reqs[a].user.v)) >= 2
    /\ getCSRFToken(redis, reqs[a].user) = reqs[b].csrf
    /\ getCSRFToken(redis, reqs[a].user) # reqs[a].csrf

\* the access tokens a request carries
Carried(q) == {q.accessCookie, q.authorization.tok} \ {NoToken}

\* the request carries a verifying access token whose principal is loaded
Authenticated(q) ==
  \E t \in Carried(q) :
    /\ t.secret = JWT_SECRET /\ Now < t.exp
    /\ q.user = t.userId
    /\ q.user.t = "number" /\ q.user.v \in users

C7_Step ==
  \A r \in Reqs :
    reqs'[r].op = "gate" =>
      /\ (reqs[r].pc = "idle" /\ (reqs'[r].reached \/ reqs'[r].pc = "gate_csrf"))
           => Authenticated(reqs'[r])
      /\ (reqs'[r].reached /\ ~reqs[r].reached) =>
           /\ ~Falsy(reqs'[r].user)
           /\ \/ reqs'[r].method \in {"GET", "HEAD", "OPTIONS"}
              \/ /\ reqs[r].pc = "gate_csrf"
                 /\ ~Falsy(reqs'[r].csrfHeader)
                 /\ reqs'[r].csrfHeader = getCSRFToken(redis, reqs'[r].user)
      /\ (Ended(reqs'[r]) /\ ~reqs'[r].reached /\ reqs'[r].failed = {})
           => reqs'[r].status \in {401, 403}

\* C7: the handler of a protected route is reached only by a request with a
\* verifying access token and a loadable principal that is either of a safe
\* method or carries the CSRF token stored for that principal; a request that
\* fails a check ends with 401 or 403.
C7_GateAdmitsOnlyChecked == [][C7_Step]_vars

\* C7 witness: a POST was admitted after its CSRF token was validated
C7_Witness ==
  \E r \in Reqs :
    /\ reqs[r].op = "gate" /\ reqs[r].reached
    /\ reqs[r].method = "POST"
    /\ ~Falsy(reqs[r].csrfHeader)

\* C8: when a lookup of the gate throws, the request is answered with an
\* error and the handler is never reached.
C8_GateFailsClosed ==
  \A r \in Reqs :
    (reqs[r].op = "gate" /\ reqs[r].failed # {})
    => Ended(reqs[r]) /\ ~reqs[r].reached /\ reqs[r].status = 500

\* C8 witness: the store lookup of the CSRF check threw
C8_Witness ==
  \E r \in Reqs :
    /\ reqs[r].op = "gate" /\ reqs[r].failed = {"csrf"}
    /\ reqs[r].method \in {"POST", "PUT", "PATCH", "DELETE"}

\* every request that minted tokens for the subject of logoutAll request a
\* had ended when a arrived
NoIssueSince(a) ==
  \A j \in Reqs :
    (reqs[j].tokens # NoTokens /\ ToStr(reqs[j].user) = reqs[a].user)
    => j \in reqs[a].after

LoggedOutEverywhere(a) ==
  /\ reqs[a].op = "logoutAll"
  /\ Ended(reqs[a])
  /\ ~Falsy(reqs[a].user)
  /\ NoIssueSince(a)

\* C11: once logoutAll for subject s has completed (no login of s running
\* beside it or after it), the store has no refresh entry whose value is s
\* and no CSRF entry of s, and every later refresh of a token of s is
\* rejected.
C11_LogoutAllRevokesAll ==
  \A a \in Reqs :
    LoggedOutEverywhere(a) =>
      /\ reqs[a].status = 200
      /\ RefreshEntries(redis, reqs[a].user.v) = {}
      /\ Falsy(getCSRFToken(redis, reqs[a].user))
      /\ \A b \in Reqs :
           ( /\ reqs[b].op = "refresh"
             /\ ToStr(reqs[b].tok.userId) = reqs[a].user
             /\ reqs[b].tok.secret = JWT_REFRESH_SECRET
             /\ a \in reqs[b].after )
           => Ended(reqs[b]) /\ reqs[b].status = 403 /\ Falsy(reqs[b].stored)

\* C11 witness: the subject had refresh tokens of two logins registered when
\* logoutAll read the keys, and logoutAll has completed
C11_Witness ==
  \E a, i, j \in Reqs :
    /\ LoggedOutEverywhere(a)
    /\ i # j
    /\ reqs[i].tokens.refreshToken # reqs[j].tokens.refreshToken
    /\ "refresh" \in reqs[i].landed /\ "refresh" \in reqs[j].landed
    /\ ToStr(reqs[i].user) = reqs[a].user /\ ToStr(reqs[j].user) = reqs[a].user
    /\ reqs[i].tokens.refreshToken.exp > Now /\ reqs[j].tokens.refreshToken.exp > Now

\* request r ran alone and no request has arrived since it ended
AloneAndLast(r) == Alone(r) /\ \A j \in Reqs : j > r => reqs[j].pc = "idle"

\* a logout that arrives while its token has no entry ends at once with 200
\* and the store as it was
C12_NoEntryStep ==
  \A r \in Reqs :
    ( /\ reqs[r].pc = "idle"
      /\ reqs'[r].op = "logout"
      /\ Falsy(getRefreshTokenUserId(redis, reqs'[r].tok)) )
    => /\ Ended(reqs'[r])
       /\ reqs'[r].status = 200
       /\ reqs'[r].cookies.change = "cleared"
       /\ redis' = redis

\* a logout of a token registered for s leaves neither refresh_token:T nor
\* csrf_token:s; a second logout of T finds no entry
C12_Removed ==
  \A r \in Reqs :
    reqs[r].op = "logout" =>
      /\ (AloneAndLast(r) /\ ~Falsy(reqs[r].stored)) =>
           /\ reqs[r].status = 200
           /\ Falsy(getRefreshTokenUserId(redis, reqs[r].tok))
           /\ Falsy(getCSRFToken(redis, reqs[r].stored))
      /\ \A a \in Reqs :
           (LoggedOut(a) /\ reqs[a].tok = reqs[r].tok /\ a \in reqs[r].after)
           => Ended(reqs[r]) /\ reqs[r].status = 200 /\ Falsy(reqs[r].stored)

\* C12: logout is idempotent: with no entry for the presented token it
\* answers 200 and leaves the store unchanged; with T registered for s it
\* removes refresh_token:T and csrf_token:s; a second logout of T is a
\* success that changes nothing.
C12_LogoutIdempotent == [][C12_NoEntryStep]_vars /\ []C12_Removed

\* C12 witness: a registered token was logged out twice
C12_Witness ==
  \E a, b \in Reqs :
    /\ LoggedOut(a) /\ ~Falsy(reqs[a].stored)
    /\ reqs[b].op = "logout" /\ reqs[b].tok = reqs[a].tok /\ a \in reqs[b].after
    /\ reqs[b].status = 200 /\ Falsy(reqs[b].stored)

\* the lifetime the configuration declares for the entries of a namespace
DeclaredTtl(ns) == IF ns = "csrf_token" THEN CSRF_TOKEN_TTL ELSE REFRESH_TOKEN_REDIS_TTL

\* every entry a step writes expires its declared lifetime after the write
C13_WriteStep ==
  \A e \in redis' \ redis : e.exp = Now + DeclaredTtl(e.key.ns)

\* what a read returns comes from an entry whose lifetime has not elapsed
C13_ReadsLive ==
  /\ \A r \in Reqs :
       ~Falsy(getRefreshTokenUserId(redis, reqs[r].tokens.refreshToken)) =>
         \E e \in redis : /\ e.key = RefreshKey(reqs[r].tokens.refreshToken)
                          /\ Now < e.exp /\ e.exp <= Now + REFRESH_TOKEN_REDIS_TTL
  /\ \A u \in Users \cup NewUsers :
       ~Falsy(getCSRFToken(redis, Num(u))) =>
         \E e \in redis : /\ e.key = CsrfKey(Num(u))
                          /\ Now < e.exp /\ e.exp <= Now + CSRF_TOKEN_TTL

\* C13: every refresh entry and every CSRF entry is written with its TTL,
\* and no read returns an entry whose TTL has elapsed, deleted or not.
C13_EntriesExpire == [][C13_WriteStep]_vars /\ []C13_ReadsLive

\* C13 witness: a login wrote both entries, nothing deleted them, and after
\* the refresh TTL neither can be read
C13_Witness ==
  \E r \in Reqs :
    /\ reqs[r].op = "login"
    /\ reqs[r].landed = {"refresh", "csrf"}
    /\ Now >= REFRESH_TOKEN_REDIS_TTL
    /\ Falsy(getRefreshTokenUserId(redis, reqs[r].tokens.refreshToken))
    /\ Falsy(getCSRFToken(redis, reqs[r].user))

\* the embedded expiry of a presented token has passed
Expired(t) == t # NoToken /\ t.exp <= Now

\* the access token the gate reads: the cookie, else the Bearer header
Presented(q) == IF q.accessCookie # NoToken THEN q.accessCookie ELSE q.authorization.tok

\* a request that arrives with an expired token: refresh gets no payload from
\* verification and, where the entry is still in the store, goes on to revoke
\* it; the gate answers 403 at once
C14_ArrivalStep ==
  \A r \in Reqs :
    (reqs[r].pc = "idle" /\ reqs'[r].pc # "idle") =>
      /\ (reqs'[r].op = "refresh" /\ Expired(reqs'[r].tok)) =>
           IF Falsy(getRefreshTokenUserId(redis, reqs'[r].tok))
             THEN Ended(reqs'[r]) /\ reqs'[r].status = 403
             ELSE /\ reqs'[r].pc = "refresh_revoke"
                  /\ Falsy(reqs'[r].decoded) /\ ~Falsy(reqs'[r].stored)
      /\ (reqs'[r].op = "gate" /\ Expired(Presented(reqs'[r]))) =>
           /\ Ended(reqs'[r]) /\ reqs'[r].status = 403
           /\ ~reqs'[r].reached /\ Falsy(reqs'[r].user)

\* a refresh whose token did not verify never issues anything and ends 403
C14_Unverified ==
  \A r \in Reqs :
    (reqs[r].op = "refresh" /\ Falsy(reqs[r].decoded)) =>
      /\ reqs[r].status \in {0, 401, 403}
      /\ reqs[r].landed = {}
      /\ reqs[r].cookies.change # "set"
      /\ reqs[r].pc \in {"refresh_revoke", "done"}
      /\ (Ended(reqs[r]) /\ ~Falsy(reqs[r].stored)) => reqs[r].status = 403

\* C14: a signed token whose expiry has passed is rejected whatever the
\* store holds: refresh rejects it while its entry is still present, the
\* gate rejects an expired access token.
C14_ExpiredRejected == [][C14_ArrivalStep]_vars /\ []C14_Unverified

\* C14 witness: a refresh token of the service was presented after its expiry
\* while its entry was in the store, and an expired access token of the
\* service was presented to the gate; both were answered 403
C14_Witness ==
  \E r, g \in Reqs :
    /\ reqs[r].op = "refresh" /\ reqs[r].tok.secret = JWT_REFRESH_SECRET
    /\ ~Falsy(reqs[r].stored) /\ Falsy(reqs[r].decoded)
    /\ Ended(reqs[r]) /\ reqs[r].status = 403
    /\ reqs[g].op = "gate" /\ reqs[g].accessCookie.secret = JWT_SECRET
    /\ Expired(reqs[g].accessCookie)
    /\ Ended(reqs[g]) /\ reqs[g].status = 403 /\ ~reqs[g].reached

\* what each operation answers when a call it awaits has thrown
FailureMessage(op) ==
  CASE op = "refresh" -> "Failed to refresh tokens"
    [] op = "logout" -> "Failed to log out"
    [] op = "gate" -> "CSRF validation failed"
    [] OTHER -> ""

\* C15: a store call that fails during refresh, logout or the CSRF check
\* ends the request with 500 and the failure message of the operation: it is
\* answered neither as 'key absent' (403) nor as success, nothing is issued,
\* no cookie is touched and the handler is not reached.
C15_StoreFailureIsAnError ==
  \A r \in Reqs :
    (reqs[r].op \in {"refresh", "logout", "gate"} /\ reqs[r].failed # {}) =>
      /\ Ended(reqs[r])
      /\ reqs[r].status = 500
      /\ reqs[r].msg = FailureMessage(reqs[r].op)
      /\ reqs[r].landed = {}
      /\ reqs[r].cookies = NoCookies
      /\ Falsy(reqs[r].csrfOut)
      /\ ~reqs[r].reached

\* C15 witness: the store lookup of a refresh and the store lookup of a CSRF
\* check both failed
C15_Witness ==
  \E r, g \in Reqs :
    /\ reqs[r].op = "refresh" /\ reqs[r].failed = {"get"} /\ reqs[r].status = 500
    /\ reqs[g].op = "gate" /\ reqs[g].failed = {"csrf"} /\ reqs[g].status = 500

\* an access token the service signed and that has not expired
ValidAccess(t) == t.secret = JWT_SECRET /\ Now < t.exp

\* the Bearer token of a request, NoToken without one
Bearer(q) == IF q.authorization.scheme = "Bearer" THEN q.authorization.tok ELSE NoToken

\* the token that decides according to the order cookie, then Bearer header
Deciding(q) == IF q.accessCookie # NoToken THEN q.accessCookie ELSE Bearer(q)

C16_ArrivalStep ==
  \A r \in Reqs :
    ( /\ reqs[r].pc = "idle" /\ reqs'[r].op = "gate"
      /\ reqs'[r].failed = {} ) =>
      LET q == reqs'[r]
          t == Deciding(q)
      IN /\ t = NoToken => q.status = 401 /\ ~q.reached
         /\ (t # NoToken /\ ~ValidAccess(t)) => q.status = 403 /\ ~q.reached
         /\ (ValidAccess(t) /\ t.userId.v \in users) => q.user = t.userId
         /\ (ValidAccess(t) /\ t.userId.v \notin users) => q.status = 403 /\ ~q.reached

\* C16: the gate decides on the accessToken cookie when there is one and on
\* the Bearer token only when there is no cookie token; with both present
\* the cookie alone decides.
C16_CookieFirst == [][C16_ArrivalStep]_vars

\* C16 witness: an invalid cookie token beside a valid Bearer token: rejected
C16_Witness ==
  \E r \in Reqs :
    /\ reqs[r].op = "gate"
    /\ reqs[r].accessCookie # NoToken /\ ~ValidAccess(reqs[r].accessCookie)
    /\ ValidAccess(Bearer(reqs[r])) /\ Bearer(reqs[r]).userId.v \in users
    /\ reqs[r].status = 403 /\ ~reqs[r].reached

ReadOnlyVerbs == {"GET", "HEAD", "OPTIONS"}

\* an authenticated request of a read-only verb is admitted in the step it
\* arrives, header or not, with no store read; a request of another verb is
\* not admitted in that step: without header it ends 403, with one it waits
\* for the store
C17_ArrivalStep ==
  \A r \in Reqs :
    ( /\ reqs[r].pc = "idle" /\ reqs'[r].op = "gate"
      /\ reqs'[r].failed = {} /\ ~Falsy(reqs'[r].user) ) =>
      LET q == reqs'[r]
      IN IF q.method \in ReadOnlyVerbs
           THEN Ended(q) /\ q.reached
           ELSE /\ ~q.reached
                /\ IF Falsy(q.csrfHeader)
                     THEN Ended(q) /\ q.status = 403
                     ELSE q.pc = "gate_csrf"

\* a request of another verb reaches the handler only out of the CSRF check
C17_AdmitStep ==
  \A r \in Reqs :
    (reqs'[r].op = "gate" /\ reqs'[r].reached /\ ~reqs[r].reached
       /\ reqs'[r].method \notin ReadOnlyVerbs)
    => reqs[r].pc = "gate_csrf" /\ ~Falsy(reqs'[r].csrfHeader)

\* C17: for GET, HEAD and OPTIONS the CSRF check is skipped: an
\* authenticated request is admitted without header and without a store
\* read; for every other method the check comes before the handler.
C17_SafeMethodsSkipCsrf == [][C17_ArrivalStep /\ C17_AdmitStep]_vars

\* C17 witness: an authenticated HEAD request without X-CSRF-Token header on
\* a route behind csrfProtection was admitted
C17_Witness ==
  \E r \in Reqs :
    /\ reqs[r].op = "gate" /\ reqs[r].method = "HEAD" /\ ~reqs[r].early
    /\ Falsy(reqs[r].csrfHeader)
    /\ ~Falsy(reqs[r].user) /\ reqs[r].reached

\* C18: the maxAge of each auth cookie is the lifetime of its token in
\* milliseconds: JWT_EXPIRES_IN * 1000 for accessToken and
\* JWT_REFRESH_EXPIRES_IN * 1000 for refreshToken.
C18_CookieMaxAgeInMilliseconds ==
  \A r \in Reqs :
    reqs[r].cookies.change = "set" =>
      /\ reqs[r].cookies.accessMaxAge = JWT_EXPIRES_IN * 1000
      /\ reqs[r].cookies.refreshMaxAge = JWT_REFRESH_EXPIRES_IN * 1000

\* a refresh that presented a token and was refused by one of its checks
RefusedRefresh(q) ==
  /\ q.op = "refresh" /\ Ended(q) /\ q.failed = {}
  /\ q.tok # NoToken /\ q.status # 200

\* C19: every refused refresh gets the same response, whichever check
\* refused it: the cause cannot be read from the status or the body.
C19_RefreshFailuresAlike ==
  \A a, b \in Reqs :
    (RefusedRefresh(reqs[a]) /\ RefusedRefresh(reqs[b]))
    => reqs[a].status = reqs[b].status /\ reqs[a].msg = reqs[b].msg

\* C20: a presented CSRF token that is not the stored one, be it different in
\* content or in length, or with nothing stored, is refused with 403 and no
\* error is raised; the stored token itself is admitted.
C20_CsrfMismatchIsFalse ==
  \A r \in Reqs :
    (reqs[r].op = "csrfmw" /\ Ended(reqs[r]) /\ ~Falsy(reqs[r].user)) =>
      IF reqs[r].csrfHeader = reqs[r].stored
        THEN reqs[r].reached /\ reqs[r].failed = {}
        ELSE reqs[r].status = 403 /\ reqs[r].failed = {} /\ ~reqs[r].reached

\* ---- C21 ----
\* the gate let a request through on a token that was minted as a refresh token
RefreshTokenAdmitted ==
  \E r \in Reqs : /\ reqs[r].op = "gate"
                  /\ reqs[r].reached
                  /\ reqs[r].accessCookie \in Minted

\* C21: under every configuration the service can be constructed with, the two
\* signing secrets differ, no refresh token is admitted by the gate as an
\* access token, and no access token passes refresh-token verification
C21_SecretsSeparate ==
  /\ JWT_SECRET # JWT_REFRESH_SECRET
  /\ ~RefreshTokenAdmitted
  /\ \A t \in MintedAccess : Falsy(verifyRefreshToken(t))


\* ---- C24 ----
\* the presented token fails verification, or is signed for another subject
\* than the one it is registered for, or its principal has no row
C24_Unacceptable(tok, storedUserId) ==
  \/ Falsy(verifyRefreshToken(tok))
  \/ ToStr(verifyRefreshToken(tok)) # storedUserId
  \/ Falsy(getUserById(verifyRefreshToken(tok)))

\* a refresh arriving with a registered, unacceptable token goes on to the
\* delete; the step after the delete answers 403 with the entry gone
C24_Step ==
  \A r \in Reqs :
    /\ ( /\ reqs[r].pc = "idle"
         /\ reqs'[r].op = "refresh"
         /\ ~Falsy(getRefreshTokenUserId(redis, reqs'[r].tok))
         /\ C24_Unacceptable(reqs'[r].tok, getRefreshTokenUserId(redis, reqs'[r].tok)) )
       => reqs'[r].pc \in {"refresh_revoke", "refresh_user"}
    /\ ( /\ reqs[r].pc = "refresh_user"
         /\ Falsy(getUserById(reqs[r].decoded)) )
       => reqs'[r].pc = "refresh_gone"
    /\ ( /\ reqs[r].pc \in {"refresh_revoke", "refresh_gone"}
         /\ reqs'[r].pc # reqs[r].pc )
       => /\ Ended(reqs'[r])
          /\ reqs'[r].status = 403
          /\ reqs'[r].cookies = clearAuthCookies
          /\ reqs'[r].tokens = NoTokens
          /\ Falsy(getRefreshTokenUserId(redis', reqs[r].tok))

\* a token a refresh has rejected and unregistered does not refresh later
C24_NotReusable ==
  \A a, b \in Reqs :
    ( /\ reqs[a].op = "refresh" /\ Ended(reqs[a]) /\ ~Falsy(reqs[a].stored)
      /\ reqs[b].op = "refresh" /\ reqs[b].tok = reqs[a].tok
      /\ a \in reqs[b].after )
    => /\ reqs[b].status # 200
       /\ reqs[b].landed = {}
       /\ reqs[b].tokens = NoTokens

\* C24: a refresh presenting a registered token that fails verification, or
\* whose subject differs from the stored one, or whose principal no longer
\* exists, deletes the entry of the token and answers 403; the token does not
\* refresh afterwards.
C24_RejectedRefreshRevokes == [][C24_Step]_vars /\ []C24_NotReusable

\* a registered token of a deleted user was refused and unregistered, and its
\* replay was refused as unregistered
C24_Witness ==
  \E a, b \in Reqs :
    /\ reqs[a].op = "refresh" /\ Ended(reqs[a]) /\ reqs[a].status = 403
    /\ ~Falsy(reqs[a].stored)
    /\ Falsy(getUserById(verifyRefreshToken(reqs[a].tok)))
    /\ reqs[b].op = "refresh" /\ reqs[b].tok = reqs[a].tok
    /\ a \in reqs[b].after
    /\ Ended(reqs[b]) /\ reqs[b].status = 403
    /\ reqs[b].msg = "Invalid refresh token"
    /\ Falsy(getRefreshTokenUserId(redis, reqs[a].tok))


\* ---- C25 ----
\* a step of refresh request r that has minted nothing and caught nothing
C25_RejectingStep(r) ==
  /\ reqs'[r] # reqs[r]
  /\ reqs'[r].op = "refresh"
  /\ reqs'[r].tokens = NoTokens
  /\ reqs'[r].failed = {}

C25_Step ==
  \A r \in Reqs :
    C25_RejectingStep(r) =>
      /\ redis' \subseteq redis
      /\ \A e \in redis \ redis' : e.key = RefreshKey(reqs'[r].tok)
      /\ Falsy(reqs'[r].stored) => redis' = redis
      /\ {e \in redis' : e.key.ns = "csrf_token"} = {e \in redis : e.key.ns = "csrf_token"}

\* C25: a rejected refresh writes no key and deletes no key but the entry of
\* the presented token; when the token is not registered the store is left as
\* it was; CSRF entries and the other refresh entries are unchanged.
C25_RejectedRefreshFrame == [][C25_Step]_vars

\* a registered token was refused and unregistered while a CSRF entry and the
\* refresh entry of another token stayed in the store
C25_Witness ==
  \E r \in Reqs :
    /\ reqs[r].op = "refresh" /\ Ended(reqs[r]) /\ reqs[r].status = 403
    /\ ~Falsy(reqs[r].stored)
    /\ Falsy(getRefreshTokenUserId(redis, reqs[r].tok))
    /\ \E e \in redis : e.key.ns = "csrf_token" /\ e.key.id = reqs[r].stored.v
    /\ \E e \in redis : e.key.ns = "refresh_token" /\ e.key # RefreshKey(reqs[r].tok)


\* ---- C26 ----
\* a logout of the token refresh request a presented has completed, and a had
\* read the entry of the token before that
C26_LoggedOutUnderneath(a) ==
  /\ reqs[a].op = "refresh"
  /\ reqs[a].pc \in RefreshPcs
  /\ ~Falsy(reqs[a].stored)
  /\ \E b \in Reqs : /\ reqs[b].op = "logout"
                     /\ reqs[b].tok = reqs[a].tok
                     /\ ~Falsy(reqs[b].stored)
                     /\ Ended(reqs[b])
                     /\ b \notin reqs[a].after

C26_Step ==
  \A a \in Reqs :
    (C26_LoggedOutUnderneath(a) /\ reqs'[a] # reqs[a]) =>
      /\ reqs'[a].status # 200
      /\ reqs'[a].landed = {}
      /\ reqs'[a].cookies.change # "set"
      /\ redis' \subseteq redis

\* C26: once a logout of T has completed, a refresh of T that had read the
\* entry of T before the logout does not go on to succeed or to register
\* anything.
C26_NoRefreshPastLogout == [][C26_Step]_vars

\* a logout of T has completed while a refresh that read the entry of T is
\* still under way
C26_Witness ==
  \E a \in Reqs : C26_LoggedOutUnderneath(a) /\ Falsy(getRefreshTokenUserId(redis, reqs[a].tok))


\* ---- C27 ----
\* every request that minted tokens for the subject of logoutAll request a
\* has ended: its store writes have landed
C27_WritesLanded(a) ==
  \A j \in Reqs :
    (reqs[j].tokens # NoTokens /\ ToStr(reqs[j].user) = reqs[a].user)
    => Ended(reqs[j])

C27_Step ==
  \A a \in Reqs :
    ( /\ reqs[a].op = "logoutAll"
      /\ reqs[a].pc = "all_csrf"
      /\ Ended(reqs'[a])
      /\ C27_WritesLanded(a) )
    => /\ RefreshEntries(redis', reqs[a].user.v) = {}
       /\ Falsy(getCSRFToken(redis', reqs[a].user))

\* C27: when the store writes of a login or refresh for s that runs beside
\* logoutAll for s land before logoutAll completes, then at the completion of
\* logoutAll no refresh entry bound to s and no CSRF entry of s remains.
C27_LogoutAllCoversConcurrentIssue == [][C27_Step]_vars


C29_BoundToSigner ==
  \A e \in redis :
    e.key.ns = "refresh_token" =>
      /\ e.key.tok.secret = JWT_REFRESH_SECRET
      /\ e.val = ToStr(e.key.tok.userId)

\* no step gives the entry of a token another value
C29_Step ==
  \A e \in redis : \A f \in redis' :
    (e.key.ns = "refresh_token" /\ f.key = e.key) => f.val = e.val

\* C29: every entry refresh_token:<T> -> u binds a token signed for subject
\* u, and no operation rebinds the entry of a token to another subject.
C29_EntryBindsSigner == []C29_BoundToSigner /\ [][C29_Step]_vars

\* tokens of two subjects are registered, one of them for a user that
\* registered in this run
C29_Witness ==
  \E e, f \in redis :
    /\ e.key.ns = "refresh_token" /\ f.key.ns = "refresh_token"
    /\ e.val # f.val
    /\ f.val \in {Str(u) : u \in NewUsers}
    /\ \E r \in Reqs : reqs[r].op = "login" /\ reqs[r].tokens.refreshToken = e.key.tok
    /\ \E r \in Reqs : reqs[r].op = "register" /\ reqs[r].tokens.refreshToken = f.key.tok


\* ---- C30 ----
\* the entry is bound to subject s (s as text)
C30_BoundTo(e, s) ==
  \/ e.key.ns = "refresh_token" /\ e.val = s
  \/ e.key.ns = "csrf_token" /\ e.key.id = s.v

C30_Step ==
  \A a \in Reqs :
    (reqs'[a] # reqs[a] /\ reqs'[a].op = "logoutAll") =>
      /\ redis' \subseteq redis
      /\ \A e \in redis \ redis' : C30_BoundTo(e, reqs'[a].user)

\* C30: logoutAll for s deletes only keys bound to s; the refresh entries and
\* the CSRF entries of other users are left as they were.
C30_LogoutAllFrame == [][C30_Step]_vars

\* logoutAll for s has completed and removed the entries of a login of s,
\* and the refresh entry and the CSRF entry of another user are in the store
C30_Witness ==
  \E a, i \in Reqs :
    /\ reqs[a].op = "logoutAll" /\ Ended(reqs[a]) /\ ~Falsy(reqs[a].user)
    /\ reqs[i].op = "login" /\ reqs[i].landed = {"refresh", "csrf"}
    /\ ToStr(reqs[i].user) = reqs[a].user
    /\ i \in reqs[a].after
    /\ Falsy(getRefreshTokenUserId(redis, reqs[i].tokens.refreshToken))
    /\ Falsy(getCSRFToken(redis, reqs[a].user))
    /\ \E e, f \in redis :
         /\ e.key.ns = "refresh_token" /\ e.val # reqs[a].user
         /\ f.key.ns = "csrf_token" /\ f.key.id # reqs[a].user.v

====
